---------------------------- MODULE Spec2Model ----------------------------
(* Menu engine of ModelLCD1602 (src/menu.c, src/console.c, src/include/menu.h). *)
(* Items are numbered 1..MENU_SIZE, NULL is 0.  The item store is the static  *)
(* array s_menu_items in static-memory mode and malloc in dynamic-memory mode. *)
EXTENDS Integers, Sequences, FiniteSets, TLC

(***************************************************************************)
(* Bounds of the model.                                                    *)
(***************************************************************************)
\* Capacity of the item store: MENU_SIZE is scaled down to this many items,
\* and malloc hands out this many blocks before it returns NULL.
MaxItems == 3
\* Raw encoder readings fed to the tick handler are 0..MaxRaw.
MaxRaw == 5
\* The same bound where the button presses are examined.
MaxRawPress == 2
\* Width in bits of the scaled-down uint32_t / int32_t encoder words.
WordBits == 8
\* Capacity of the title field: MENU_ITEM_TITLE_LEN is scaled down to this
\* many characters.
MaxTitle == 2

(***************************************************************************)
(* Constants of the program.                                               *)
(***************************************************************************)
NULL == 0
\* A pointer value that refers to no item (an indeterminate pointer read
\* from a block malloc returned).
WILD == -1
MENU_SIZE == MaxItems
MENU_ITEM_TITLE_LEN == MaxTitle
\* The terminator '\0' of a C string; every other character is a letter.
NUL == ""
\* The value of a word, and of a character, that was never written.
UNDEF == -2
UNDEF_CHAR == "?"
ENCODER_INPUT_FILTER == 2
MENU_FLAG_GOTO_PARENT == 128
MENU_FLAG_GOTO_CHILD == 32
MENU_USAGE_STATIC_MEMORY == 1
MENU_USAGE_DYNAMIC_MEMORY == 2
\* The one callback function the menu definition may attach to an item.
CB == 1

Slots == 1..MENU_SIZE
UintModulus == 2^WordBits
RawReadings == 0..MaxRaw
FlagInputs == {0, MENU_FLAG_GOTO_PARENT, MENU_FLAG_GOTO_CHILD}
CallbackInputs == {NULL, CB}
\* The title "a", which fits the title field.
ShortTitle == <<"a">>
\* Titles of 0 to MENU_ITEM_TITLE_LEN + 1 letters: "", "a", "b", "ab", "ba",
\* "aba", "bab", ...
AltTitle(c, d, n) == [i \in 1..n |-> IF i % 2 = 1 THEN c ELSE d]
TitleInputs ==
    {AltTitle("a", "b", n) : n \in 0..(MENU_ITEM_TITLE_LEN + 1)}
        \cup {AltTitle("b", "a", n) : n \in 0..(MENU_ITEM_TITLE_LEN + 1)}

VARIABLES
    mode,              \* MENU_USAGE_MEMORY, fixed at build time
    items,             \* the menu_item_t objects, by slot
    static_array_pos,  \* s_menu_handle.static_array_pos
    heap,              \* blocks malloc has handed out (dynamic mode)
    start,             \* s_menu_handle.start
    current,           \* s_menu_handle.current
    rotenc,            \* s_menu_handle.rotenc
    taskReadKey_current, \* the local variable current of taskReadKey
    pc,                \* where Menu_Init / s_menu_init stands
    event,             \* the last call made: its kind, argument, return value
    out                \* what the last call asked of its collaborators

vars == <<mode, items, static_array_pos, heap, start, current, rotenc,
          taskReadKey_current, pc, event, out>>

\* menu_item_t of a zero-initialised static array element.
ZeroItem ==
    [title |-> [i \in 1..MENU_ITEM_TITLE_LEN |-> NUL],
     prev |-> NULL, next |-> NULL, folowing |-> NULL, parent |-> NULL,
     child |-> NULL, callback |-> NULL, data |-> 0, flags |-> 0]

\* The items handed out by the item store so far.
Allocated == IF mode = MENU_USAGE_STATIC_MEMORY THEN 1..static_array_pos ELSE heap

\* What the prev/next fields of a fresh item may hold: zero in the static
\* array, anything in a block from malloc (no item, or no valid address).
GarbagePtr == IF mode = MENU_USAGE_STATIC_MEMORY THEN {NULL} ELSE {NULL, WILD}

HasFlag(flags, bit) == (flags \div bit) % 2 = 1
SetFlag(flags, bit) == IF HasFlag(flags, bit) THEN flags ELSE flags + bit

\* (int) of a uint32_t word, and the word of an int.
ToInt(u) == IF u >= UintModulus \div 2 THEN u - UintModulus ELSE u
ToUint(i) == i % UintModulus

(***************************************************************************)
(* s_create_new_item: the next element of the static array, or a malloc'ed *)
(* block whose prev/next hold gp/gn.                                       *)
(***************************************************************************)
\* strncpy(dest, src, n): the first n characters of the string src, and
\* terminators up to n when src is shorter; src is given without its
\* terminator.
strncpy(dest, src, n) ==
    [i \in 1..Len(dest) |->
        IF i > n THEN dest[i]
        ELSE IF i <= Len(src) THEN src[i] ELSE NUL]

\* A block as malloc returns it: no byte of it has been written.  prev and
\* next, which s_menu_add_item does not assign, hold gp and gn; t is the
\* title field of the block.
MallocBlock(gp, gn, t) ==
    [title |-> [i \in 1..Len(t) |-> UNDEF_CHAR],
     prev |-> gp, next |-> gn, folowing |-> WILD, parent |-> WILD,
     child |-> WILD, callback |-> WILD, data |-> UNDEF, flags |-> UNDEF]

\* The number of elements of the item store of this run: MENU_SIZE elements
\* of s_menu_items, and as many blocks from malloc before it returns NULL.
StoreSize == Cardinality(DOMAIN items)

\* s_create_new_item that refuses the last element of the static array.
s_create_new_item_one_short(gp, gn) ==
    IF mode = MENU_USAGE_STATIC_MEMORY
    THEN IF static_array_pos >= StoreSize - 1
         THEN [item |-> NULL, pos |-> static_array_pos, heap |-> heap, its |-> items]
         ELSE [item |-> static_array_pos + 1, pos |-> static_array_pos + 1,
               heap |-> heap, its |-> items]
    ELSE IF Cardinality(heap) >= StoreSize
         THEN [item |-> NULL, pos |-> static_array_pos, heap |-> heap, its |-> items]
         ELSE LET b == Cardinality(heap) + 1
              IN [item |-> b, pos |-> static_array_pos, heap |-> heap \cup {b},
                  its |-> [items EXCEPT ![b] = MallocBlock(gp, gn, @.title)]]

s_create_new_item(gp, gn) ==
    IF mode = MENU_USAGE_STATIC_MEMORY
    THEN IF static_array_pos >= StoreSize
         THEN [item |-> NULL, pos |-> static_array_pos, heap |-> heap, its |-> items]
         ELSE [item |-> static_array_pos + 1, pos |-> static_array_pos + 1,
               heap |-> heap, its |-> items]
    ELSE IF Cardinality(heap) >= StoreSize
         THEN [item |-> NULL, pos |-> static_array_pos, heap |-> heap, its |-> items]
         ELSE LET b == Cardinality(heap) + 1
              IN [item |-> b, pos |-> static_array_pos, heap |-> heap \cup {b},
                  its |-> [items EXCEPT ![b] = MallocBlock(gp, gn, @.title)]]

(***************************************************************************)
(* s_menu_rechain: the while loop over the folowing chain, then the two    *)
(* closing assignments.                                                    *)
(***************************************************************************)
RECURSIVE rechain_loop(_, _, _, _, _)
rechain_loop(its, item, first, prev, parent) ==
    IF item = NULL
    THEN [its |-> its, first |-> first, prev |-> prev]
    ELSE IF its[item].parent = parent
         THEN LET first1 == IF first = NULL THEN item ELSE first
                  its1 == [its EXCEPT ![item].prev = prev]
                  its2 == IF prev # NULL THEN [its1 EXCEPT ![prev].next = item] ELSE its1
              IN rechain_loop(its2, its2[item].folowing, first1, item, parent)
         ELSE rechain_loop(its, its[item].folowing, first, prev, parent)

\* s_menu_rechain without "first->prev = prev".
s_menu_rechain_open_head(its, st, parent) ==
    LET r == rechain_loop(its, st, NULL, NULL, parent)
    IN IF r.prev # NULL THEN [r.its EXCEPT ![r.prev].next = r.first] ELSE r.its

\* s_menu_rechain without "prev->next = first".
s_menu_rechain_open_tail(its, st, parent) ==
    LET r == rechain_loop(its, st, NULL, NULL, parent)
    IN IF r.first # NULL THEN [r.its EXCEPT ![r.first].prev = r.prev] ELSE r.its

\* s_menu_rechain with prev and next exchanged in every assignment.
RECURSIVE rechain_loop_swapped(_, _, _, _, _)
rechain_loop_swapped(its, item, first, prev, parent) ==
    IF item = NULL
    THEN [its |-> its, first |-> first, prev |-> prev]
    ELSE IF its[item].parent = parent
         THEN LET first1 == IF first = NULL THEN item ELSE first
                  its1 == [its EXCEPT ![item].next = prev]
                  its2 == IF prev # NULL THEN [its1 EXCEPT ![prev].prev = item] ELSE its1
              IN rechain_loop_swapped(its2, its2[item].folowing, first1, item, parent)
         ELSE rechain_loop_swapped(its, its[item].folowing, first, prev, parent)

s_menu_rechain_swapped(its, st, parent) ==
    LET r == rechain_loop_swapped(its, st, NULL, NULL, parent)
        its1 == IF r.first # NULL THEN [r.its EXCEPT ![r.first].next = r.prev] ELSE r.its
        its2 == IF r.prev # NULL THEN [its1 EXCEPT ![r.prev].prev = r.first] ELSE its1
    IN its2

\* s_menu_rechain that links prev->next only for an item that already had a
\* predecessor (it tests item->prev, read before the assignment, with prev).
RECURSIVE rechain_loop_stale(_, _, _, _, _)
rechain_loop_stale(its, item, first, prev, parent) ==
    IF item = NULL
    THEN [its |-> its, first |-> first, prev |-> prev]
    ELSE IF its[item].parent = parent
         THEN LET first1 == IF first = NULL THEN item ELSE first
                  its1 == [its EXCEPT ![item].prev = prev]
                  its2 == IF prev # NULL /\ its[item].prev # NULL
                          THEN [its1 EXCEPT ![prev].next = item] ELSE its1
              IN rechain_loop_stale(its2, its2[item].folowing, first1, item, parent)
         ELSE rechain_loop_stale(its, its[item].folowing, first, prev, parent)

s_menu_rechain_stale(its, st, parent) ==
    LET r == rechain_loop_stale(its, st, NULL, NULL, parent)
        its1 == IF r.first # NULL THEN [r.its EXCEPT ![r.first].prev = r.prev] ELSE r.its
        its2 == IF r.prev # NULL THEN [its1 EXCEPT ![r.prev].next = r.first] ELSE its1
    IN its2

\* s_menu_rechain without the test "item->parent == parent".
RECURSIVE rechain_loop_any_parent(_, _, _, _, _)
rechain_loop_any_parent(its, item, first, prev, parent) ==
    IF item = NULL
    THEN [its |-> its, first |-> first, prev |-> prev]
    ELSE LET first1 == IF first = NULL THEN item ELSE first
             its1 == [its EXCEPT ![item].prev = prev]
             its2 == IF prev # NULL THEN [its1 EXCEPT ![prev].next = item] ELSE its1
         IN rechain_loop_any_parent(its2, its2[item].folowing, first1, item, parent)

s_menu_rechain_any_parent(its, st, parent) ==
    LET r == rechain_loop_any_parent(its, st, NULL, NULL, parent)
        its1 == IF r.first # NULL THEN [r.its EXCEPT ![r.first].prev = r.prev] ELSE r.its
        its2 == IF r.prev # NULL THEN [its1 EXCEPT ![r.prev].next = r.first] ELSE its1
    IN its2

\* s_menu_rechain with "first" initialised to s_menu_handle.start.
s_menu_rechain_first_is_start(its, st, parent) ==
    LET r == rechain_loop(its, st, st, NULL, parent)
        its1 == IF r.first # NULL THEN [r.its EXCEPT ![r.first].prev = r.prev] ELSE r.its
        its2 == IF r.prev # NULL THEN [its1 EXCEPT ![r.prev].next = r.first] ELSE its1
    IN its2

s_menu_rechain(its, st, parent) ==
    LET r == rechain_loop(its, st, NULL, NULL, parent)
        its1 == IF r.first # NULL THEN [r.its EXCEPT ![r.first].prev = r.prev] ELSE r.its
        its2 == IF r.prev # NULL THEN [its1 EXCEPT ![r.prev].next = r.first] ELSE its1
    IN its2

(***************************************************************************)
(* s_menu_add_item(title, parent, callback, flags)                         *)
(***************************************************************************)
\* s_menu_add_item that assigns s_menu_handle.current = item before it tests
\* item against NULL.
s_menu_add_item_current_first(title, parent, callback, flags) ==
    /\ pc = "build"
    /\ \E gp \in GarbagePtr, gn \in GarbagePtr :
         LET r == s_create_new_item(gp, gn)
             item == r.item
             its1 == [r.its EXCEPT ![item].title = strncpy(@, title, Len(@)),
                                   ![item].parent = parent,
                                   ![item].child = NULL,
                                   ![item].flags = flags,
                                   ![item].callback = callback,
                                   ![item].folowing = NULL]
             its2 == IF current # NULL
                     THEN [its1 EXCEPT ![current].folowing = item]
                     ELSE its1
             start1 == IF start = NULL THEN item ELSE start
         IN /\ IF item = NULL
               THEN /\ current' = NULL
                    /\ UNCHANGED <<items, static_array_pos, heap, start>>
               ELSE /\ items' = s_menu_rechain(its2, start1, parent)
                    /\ static_array_pos' = r.pos
                    /\ heap' = r.heap
                    /\ current' = item
                    /\ start' = start1
            /\ event' = [kind |-> "add_item", arg |-> title, ret |-> item]
    /\ out' = <<>>
    /\ UNCHANGED <<mode, taskReadKey_current, rotenc, pc>>

\* s_menu_add_item that links the new item behind start, not behind the
\* item added last.
s_menu_add_item_links_start(title, parent, callback, flags) ==
    /\ pc = "build"
    /\ \E gp \in GarbagePtr, gn \in GarbagePtr :
         LET r == s_create_new_item(gp, gn)
             item == r.item
             its1 == [r.its EXCEPT ![item].title = strncpy(@, title, Len(@)),
                                   ![item].parent = parent,
                                   ![item].child = NULL,
                                   ![item].flags = flags,
                                   ![item].callback = callback,
                                   ![item].folowing = NULL]
             its2 == IF start # NULL
                     THEN [its1 EXCEPT ![start].folowing = item]
                     ELSE its1
             start1 == IF start = NULL THEN item ELSE start
         IN /\ IF item = NULL
               THEN UNCHANGED <<items, static_array_pos, heap, start, current>>
               ELSE /\ items' = s_menu_rechain(its2, start1, parent)
                    /\ static_array_pos' = r.pos
                    /\ heap' = r.heap
                    /\ current' = item
                    /\ start' = start1
            /\ event' = [kind |-> "add_item", arg |-> title, ret |-> item]
    /\ out' = <<>>
    /\ UNCHANGED <<mode, taskReadKey_current, rotenc, pc>>

\* s_menu_add_item that also makes the new item the child of its parent.
s_menu_add_item_sets_parent_child(title, parent, callback, flags) ==
    /\ pc = "build"
    /\ \E gp \in GarbagePtr, gn \in GarbagePtr :
         LET r == s_create_new_item(gp, gn)
             item == r.item
             its1 == [r.its EXCEPT ![item].title = strncpy(@, title, Len(@)),
                                   ![item].parent = parent,
                                   ![item].child = NULL,
                                   ![item].flags = flags,
                                   ![item].callback = callback,
                                   ![item].folowing = NULL]
             its2 == IF current # NULL
                     THEN [its1 EXCEPT ![current].folowing = item]
                     ELSE its1
             its3 == IF parent # NULL
                     THEN [its2 EXCEPT ![parent].child = item]
                     ELSE its2
             start1 == IF start = NULL THEN item ELSE start
         IN /\ IF item = NULL
               THEN UNCHANGED <<items, static_array_pos, heap, start, current>>
               ELSE /\ items' = s_menu_rechain(its3, start1, parent)
                    /\ static_array_pos' = r.pos
                    /\ heap' = r.heap
                    /\ current' = item
                    /\ start' = start1
            /\ event' = [kind |-> "add_item", arg |-> title, ret |-> item]
    /\ out' = <<>>
    /\ UNCHANGED <<mode, taskReadKey_current, rotenc, pc>>

s_menu_add_item(title, parent, callback, flags) ==
    /\ pc = "build"
    /\ \E gp \in GarbagePtr, gn \in GarbagePtr :
         LET r == s_create_new_item(gp, gn)
             item == r.item
             its1 == [r.its EXCEPT ![item].title = strncpy(@, title, Len(@)),
                                   ![item].parent = parent,
                                   ![item].child = NULL,
                                   ![item].flags = flags,
                                   ![item].callback = callback,
                                   ![item].folowing = NULL]
             its2 == IF current # NULL
                     THEN [its1 EXCEPT ![current].folowing = item]
                     ELSE its1
             start1 == IF start = NULL THEN item ELSE start
         IN /\ IF item = NULL
               THEN UNCHANGED <<items, static_array_pos, heap, start, current>>
               ELSE /\ items' = s_menu_rechain(its2, start1, parent)
                    /\ static_array_pos' = r.pos
                    /\ heap' = r.heap
                    /\ current' = item
                    /\ start' = start1
            /\ event' = [kind |-> "add_item", arg |-> title, ret |-> item]
    /\ out' = <<>>
    /\ UNCHANGED <<mode, taskReadKey_current, rotenc, pc>>

(***************************************************************************)
(* s_menu_set_child(item, child)                                           *)
(***************************************************************************)
\* s_menu_set_child with "item->flags = MENU_FLAG_GOTO_CHILD".
s_menu_set_child_assigns_flags(item, child) ==
    /\ pc = "build"
    /\ IF item # NULL
       THEN items' = [items EXCEPT ![item].child = child,
                                   ![item].flags = MENU_FLAG_GOTO_CHILD]
       ELSE UNCHANGED items
    /\ event' = [kind |-> "set_child", arg |-> <<item, child>>, ret |-> NULL]
    /\ out' = <<>>
    /\ UNCHANGED <<mode, taskReadKey_current, static_array_pos, heap, start, current, rotenc, pc>>

\* s_menu_set_child without "item->flags |= MENU_FLAG_GOTO_CHILD".
s_menu_set_child_no_flag(item, child) ==
    /\ pc = "build"
    /\ IF item # NULL
       THEN items' = [items EXCEPT ![item].child = child]
       ELSE UNCHANGED items
    /\ event' = [kind |-> "set_child", arg |-> <<item, child>>, ret |-> NULL]
    /\ out' = <<>>
    /\ UNCHANGED <<mode, taskReadKey_current, static_array_pos, heap, start, current, rotenc, pc>>

s_menu_set_child(item, child) ==
    /\ pc = "build"
    /\ IF item # NULL
       THEN items' = [items EXCEPT ![item].child = child,
                                   ![item].flags = SetFlag(@, MENU_FLAG_GOTO_CHILD)]
       ELSE UNCHANGED items
    /\ event' = [kind |-> "set_child", arg |-> <<item, child>>, ret |-> NULL]
    /\ out' = <<>>
    /\ UNCHANGED <<mode, taskReadKey_current, static_array_pos, heap, start, current, rotenc, pc>>

(***************************************************************************)
(* A call of s_menu_rechain(parent) on its own.                            *)
(***************************************************************************)
Rechain(parent) ==
    /\ pc = "build"
    /\ items' = s_menu_rechain(items, start, parent)
    /\ event' = [kind |-> "rechain", arg |-> parent, ret |-> NULL]
    /\ out' = <<>>
    /\ UNCHANGED <<mode, taskReadKey_current, static_array_pos, heap, start, current, rotenc, pc>>

(***************************************************************************)
(* s_display_menu: printMenu(current->title, current->next->title).  The   *)
(* two titles are named by their items.  Reading through a pointer that is *)
(* no item stops the program.                                              *)
(***************************************************************************)
CanDisplay(its, cur) == cur \in Allocated /\ its[cur].next \in Allocated

\* A title that holds a terminator: printf("%s") stops inside the field.
Terminated(t) == \E i \in 1..Len(t) : t[i] = NUL

\* printMenu reads each title up to its terminator; without one it reads on
\* past the field ("overread").
s_display_menu(its, cur) ==
    <<[op |-> IF Terminated(its[cur].title) /\ Terminated(its[its[cur].next].title)
              THEN "render" ELSE "overread",
       a |-> cur, b |-> its[cur].next]>>

\* A handler that calls s_display_menu before it assigns the new current item.
FinishWithDisplay_before_move(cur) ==
    IF CanDisplay(items, cur)
    THEN /\ current' = cur
         /\ out' = s_display_menu(items, current)
         /\ pc' = pc
    ELSE /\ current' = cur
         /\ out' = <<>>
         /\ pc' = "crashed"

\* A handler that ends in s_display_menu with cur as the current item.
FinishWithDisplay(cur) ==
    IF CanDisplay(items, cur)
    THEN /\ current' = cur
         /\ out' = s_display_menu(items, cur)
         /\ pc' = pc
    ELSE /\ current' = cur
         /\ out' = <<>>
         /\ pc' = "crashed"

(***************************************************************************)
(* s_menu_init, up to the call of taskReadKey.                             *)
(***************************************************************************)
\* s_menu_init without the assignment of start to current.
s_menu_init_keep_current ==
    /\ pc = "build"
    /\ IF CanDisplay(items, current)
       THEN /\ out' = s_display_menu(items, current)
            /\ pc' = "run"
       ELSE /\ out' = <<>>
            /\ pc' = "crashed"
    /\ event' = [kind |-> "init", arg |-> NULL, ret |-> NULL]
    /\ UNCHANGED <<mode, taskReadKey_current, items, static_array_pos, heap, start, current, rotenc>>

s_menu_init ==
    /\ pc = "build"
    /\ IF CanDisplay(items, start)
       THEN /\ current' = start
            /\ out' = s_display_menu(items, start)
            /\ pc' = "run"
       ELSE /\ current' = start
            /\ out' = <<>>
            /\ pc' = "crashed"
    /\ event' = [kind |-> "init", arg |-> NULL, ret |-> NULL]
    /\ UNCHANGED <<mode, taskReadKey_current, items, static_array_pos, heap, start, rotenc>>

(***************************************************************************)
(* s_menu_position_handling: the item that becomes current.                *)
(***************************************************************************)
\* s_menu_position_handling with the two directions exchanged.
s_menu_position_handling_reversed(its, cur, delta) ==
    IF delta > 0 THEN its[cur].prev
    ELSE IF delta < 0 THEN its[cur].next
    ELSE cur

\* s_menu_position_handling that steps to next for every non-zero delta.
s_menu_position_handling_forward_only(its, cur, delta) ==
    IF delta # 0 THEN its[cur].next ELSE cur

s_menu_position_handling(its, cur, delta) ==
    IF delta > 0 THEN its[cur].next
    ELSE IF delta < 0 THEN its[cur].prev
    ELSE cur

(***************************************************************************)
(* s_rotary_encoder_callback(current)                                      *)
(***************************************************************************)
\* The filter test with integer division forgotten: every reading passes.
Accepted_no_filter(raw) == (raw * ENCODER_INPUT_FILTER) \div ENCODER_INPUT_FILTER = raw

Accepted(raw) == (raw \div ENCODER_INPUT_FILTER) * ENCODER_INPUT_FILTER = raw

\* The delta taken from the raw reading itself, not from half of it.
EncoderDelta_undivided(raw, position) == ToInt(raw) - ToInt(position)

EncoderDelta(raw, position) == ToInt(raw \div 2) - ToInt(position)

\* s_rotary_encoder_callback that goes on to s_menu_position_handling after
\* it has called the item's callback.
s_rotary_encoder_callback_then_moves(raw) ==
    /\ pc = "run"
    /\ event' = [kind |-> "tick", arg |-> raw, ret |-> NULL]
    /\ IF ~Accepted(raw)
       THEN /\ out' = <<>>
            /\ UNCHANGED <<rotenc, current, pc>>
       ELSE LET delta == EncoderDelta(raw, rotenc.current)
                cur == s_menu_position_handling(items, current, delta)
            IN /\ rotenc' = [delta |-> delta,
                             prev |-> rotenc.current,
                             current |-> ToUint(rotenc.current + delta)]
               /\ IF items[current].callback # NULL
                  THEN /\ out' = <<[op |-> "callback", a |-> current, b |-> NULL]>>
                       /\ current' = cur
                       /\ pc' = pc
                  ELSE FinishWithDisplay(cur)
    /\ UNCHANGED <<mode, items, static_array_pos, heap, start>>

s_rotary_encoder_callback(raw) ==
    /\ pc = "run"
    /\ event' = [kind |-> "tick", arg |-> raw, ret |-> NULL]
    /\ IF ~Accepted(raw)
       THEN /\ out' = <<>>
            /\ UNCHANGED <<rotenc, current, pc>>
       ELSE LET delta == EncoderDelta(raw, rotenc.current)
            IN /\ rotenc' = [delta |-> delta,
                             prev |-> rotenc.current,
                             current |-> ToUint(rotenc.current + delta)]
               /\ IF items[current].callback # NULL
                  THEN /\ out' = <<[op |-> "callback", a |-> current, b |-> NULL]>>
                       /\ UNCHANGED <<current, pc>>
                  ELSE FinishWithDisplay(s_menu_position_handling(items, current, delta))
    /\ UNCHANGED <<mode, items, static_array_pos, heap, start>>

(***************************************************************************)
(* s_push_button_callback                                                  *)
(***************************************************************************)
\* s_push_button_callback with the parent branch tested before the child branch.
PushTarget_parent_first(its, cur) ==
    IF its[cur].parent # NULL /\ HasFlag(its[cur].flags, MENU_FLAG_GOTO_PARENT)
    THEN its[cur].parent
    ELSE IF its[cur].child # NULL /\ HasFlag(its[cur].flags, MENU_FLAG_GOTO_CHILD)
         THEN its[cur].child
         ELSE cur

\* s_push_button_callback without its else-if branch: it never ascends.
PushTarget_no_ascent(its, cur) ==
    IF its[cur].child # NULL /\ HasFlag(its[cur].flags, MENU_FLAG_GOTO_CHILD)
    THEN its[cur].child
    ELSE cur

PushTarget(its, cur) ==
    IF its[cur].child # NULL /\ HasFlag(its[cur].flags, MENU_FLAG_GOTO_CHILD)
    THEN its[cur].child
    ELSE IF its[cur].parent # NULL /\ HasFlag(its[cur].flags, MENU_FLAG_GOTO_PARENT)
         THEN its[cur].parent
         ELSE cur

\* s_push_button_callback that calls the callback of an item that has one
\* instead of navigating.
s_push_button_callback_calls_back ==
    /\ pc = "run"
    /\ event' = [kind |-> "short", arg |-> NULL, ret |-> NULL]
    /\ IF items[current].callback # NULL
       THEN /\ out' = <<[op |-> "callback", a |-> current, b |-> NULL]>>
            /\ UNCHANGED <<current, pc>>
       ELSE FinishWithDisplay(PushTarget(items, current))
    /\ UNCHANGED <<mode, taskReadKey_current, items, static_array_pos, heap, start, rotenc>>

s_push_button_callback ==
    /\ pc = "run"
    /\ event' = [kind |-> "short", arg |-> NULL, ret |-> NULL]
    /\ FinishWithDisplay(PushTarget(items, current))
    /\ UNCHANGED <<mode, taskReadKey_current, items, static_array_pos, heap, start, rotenc>>

(***************************************************************************)
(* s_long_push_button_callback                                             *)
(***************************************************************************)
\* s_long_push_button_callback that ascends only with MENU_FLAG_GOTO_PARENT set.
LongPushTarget_flag_gated(its, cur, st) ==
    IF its[cur].parent # NULL /\ HasFlag(its[cur].flags, MENU_FLAG_GOTO_PARENT)
    THEN its[cur].parent
    ELSE st

\* s_long_push_button_callback that assigns current->parent without testing it.
LongPushTarget_unchecked(its, cur, st) == its[cur].parent

\* s_long_push_button_callback whose else branch leaves current alone.
LongPushTarget_stay_at_root(its, cur, st) ==
    IF its[cur].parent # NULL THEN its[cur].parent ELSE cur

LongPushTarget(its, cur, st) ==
    IF its[cur].parent # NULL THEN its[cur].parent ELSE st

\* s_long_push_button_callback that also zeroes the encoder state when it
\* jumps to start.
s_long_push_button_callback_resets_encoder ==
    /\ pc = "run"
    /\ event' = [kind |-> "long", arg |-> NULL, ret |-> NULL]
    /\ FinishWithDisplay(LongPushTarget(items, current, start))
    /\ rotenc' = IF items[current].parent # NULL THEN rotenc
                 ELSE [current |-> 0, prev |-> 0, delta |-> 0]
    /\ UNCHANGED <<mode, taskReadKey_current, items, static_array_pos, heap, start>>

s_long_push_button_callback ==
    /\ pc = "run"
    /\ event' = [kind |-> "long", arg |-> NULL, ret |-> NULL]
    /\ FinishWithDisplay(LongPushTarget(items, current, start))
    /\ UNCHANGED <<mode, taskReadKey_current, items, static_array_pos, heap, start, rotenc>>

(***************************************************************************)
(* taskReadKey returns when the Esc key is read.                           *)
(***************************************************************************)
Escape ==
    /\ pc = "run"
    /\ pc' = "exit"
    /\ event' = [kind |-> "esc", arg |-> NULL, ret |-> NULL]
    /\ out' = <<>>
    /\ UNCHANGED <<mode, taskReadKey_current, items, static_array_pos, heap, start, current, rotenc>>

(***************************************************************************)
(* s_menu_free_items: the walk along the folowing chain.  live is the set  *)
(* of blocks not yet passed to free; the result lists, in order, every     *)
(* read of an item's field and every call of free.  A read through a       *)
(* pointer that is no live block ends the walk (ok is FALSE).              *)
(***************************************************************************)
\* The loop with the statements "free(item); next = item->folowing;" in
\* this order.
RECURSIVE free_loop_release_first(_, _, _, _)
free_loop_release_first(its, item, live, trace) ==
    IF item \notin live
    THEN [live |-> live, ok |-> FALSE,
          trace |-> Append(trace, [op |-> "bad_read", a |-> item, b |-> NULL])]
    ELSE LET t1 == Append(trace, [op |-> "read", a |-> item, b |-> NULL])
         IN IF its[item].folowing = NULL
            THEN [live |-> live, ok |-> TRUE, trace |-> t1]
            ELSE LET t2 == Append(t1, [op |-> "free", a |-> item, b |-> NULL])
                     t3 == Append(t2, [op |-> "read", a |-> item, b |-> NULL])
                 IN free_loop_release_first(its, its[item].folowing,
                                            live \ {item}, t3)

s_menu_free_items_release_first(its, st, live) ==
    free_loop_release_first(its, st, live, <<>>)

RECURSIVE free_loop(_, _, _, _)
free_loop(its, item, live, trace) ==
    IF item \notin live
    THEN [live |-> live, ok |-> FALSE,
          trace |-> Append(trace, [op |-> "bad_read", a |-> item, b |-> NULL])]
    ELSE LET t1 == Append(trace, [op |-> "read", a |-> item, b |-> NULL])
         IN IF its[item].folowing = NULL
            THEN [live |-> live, ok |-> TRUE, trace |-> t1]
            ELSE LET t2 == Append(t1, [op |-> "read", a |-> item, b |-> NULL])
                     t3 == Append(t2, [op |-> "free", a |-> item, b |-> NULL])
                 IN free_loop(its, its[item].folowing, live \ {item}, t3)

s_menu_free_items(its, st, live) == free_loop(its, st, live, <<>>)

(***************************************************************************)
(* s_menu_init after taskReadKey has returned: s_menu_free_items in        *)
(* dynamic-memory mode, nothing in static-memory mode.                     *)
(***************************************************************************)
\* s_menu_free_items called where taskReadKey goes on reading keys.
s_menu_init_return_inside_loop ==
    /\ pc = "exit"
    /\ IF mode = MENU_USAGE_DYNAMIC_MEMORY
       THEN LET r == s_menu_free_items(items, start, heap)
            IN /\ heap' = r.live
               /\ out' = r.trace
               /\ pc' = IF r.ok THEN "run" ELSE "crashed"
       ELSE /\ out' = <<>>
            /\ pc' = "run"
            /\ UNCHANGED heap
    /\ event' = [kind |-> "return", arg |-> NULL, ret |-> NULL]
    /\ UNCHANGED <<mode, taskReadKey_current, items, static_array_pos, start, current, rotenc>>

s_menu_init_return ==
    /\ pc = "exit"
    /\ IF mode = MENU_USAGE_DYNAMIC_MEMORY
       THEN LET r == s_menu_free_items(items, start, heap)
            IN /\ heap' = r.live
               /\ out' = r.trace
               /\ pc' = IF r.ok THEN "done" ELSE "crashed"
       ELSE /\ out' = <<>>
            /\ pc' = "done"
            /\ UNCHANGED heap
    /\ event' = [kind |-> "return", arg |-> NULL, ret |-> NULL]
    /\ UNCHANGED <<mode, taskReadKey_current, items, static_array_pos, start, current, rotenc>>

(***************************************************************************)
(* The draft of the engine in src/menu03.c: its s_menu_rechain and its     *)
(* s_menu_add_item.  s_create_new_item is the same function there.         *)
(***************************************************************************)
\* a | b on the uint8_t flags; indeterminate when a was never written.
OrBits(a, b) ==
    IF a = UNDEF THEN UNDEF
    ELSE LET B(bit) == IF HasFlag(a, bit) \/ HasFlag(b, bit) THEN bit ELSE 0
         IN B(1) + B(2) + B(4) + B(8) + B(16) + B(32) + B(64) + B(128)

\* The loop of the draft's s_menu_rechain: "while(item->folowing)" leaves
\* the loop at the last item of the chain without visiting it, and
\* item->prev is assigned only behind a predecessor.
RECURSIVE menu03_rechain_loop(_, _, _, _, _)
menu03_rechain_loop(its, item, first, prev, parent) ==
    IF its[item].folowing = NULL
    THEN [its |-> its, first |-> first, prev |-> prev]
    ELSE IF its[item].parent = parent
         THEN LET first1 == IF first = NULL THEN item ELSE first
                  its1 == IF prev # NULL
                          THEN [its EXCEPT ![item].prev = prev, ![prev].next = item]
                          ELSE its
              IN menu03_rechain_loop(its1, its1[item].folowing, first1, item, parent)
         ELSE menu03_rechain_loop(its, its[item].folowing, first, prev, parent)

\* The draft's s_menu_rechain: after the loop "first->prev = prev;
\* prev->next = first;" without a test; null is TRUE when these two
\* assignments go through a NULL pointer.
menu03_s_menu_rechain(its, st, parent) ==
    LET r == menu03_rechain_loop(its, st, NULL, NULL, parent)
    IN IF r.first = NULL
       THEN [its |-> r.its, null |-> TRUE]
       ELSE [its |-> [r.its EXCEPT ![r.first].prev = r.prev, ![r.prev].next = r.first],
             null |-> FALSE]

\* The draft's s_menu_add_item.  The assignments through a NULL pointer
\* either stop the program or change no item; the function ends without a
\* return statement, so its caller receives the item or any other value.
menu03_s_menu_add_item(title, parent, callback, flags) ==
    /\ pc = "build"
    /\ \E gp \in GarbagePtr, gn \in GarbagePtr :
         LET r == s_create_new_item(gp, gn)
             item == r.item
             its1 == [r.its EXCEPT ![item].title = strncpy(@, title, Len(@)),
                                   ![item].parent = parent,
                                   ![item].child = NULL,
                                   ![item].flags = OrBits(@, flags),
                                   ![item].callback = callback,
                                   ![item].folowing = NULL]
             its2 == IF current # NULL
                     THEN [its1 EXCEPT ![current].folowing = item]
                     ELSE its1
             start1 == IF start = NULL THEN item ELSE start
         IN IF item = NULL
            THEN /\ UNCHANGED <<items, static_array_pos, heap, start, current, pc>>
                 /\ event' = [kind |-> "add_item", arg |-> title, ret |-> NULL]
                 /\ out' = <<>>
            ELSE LET rc == menu03_s_menu_rechain(its2, start1, parent)
                 IN /\ items' = rc.its
                    /\ static_array_pos' = r.pos
                    /\ heap' = r.heap
                    /\ current' = item
                    /\ start' = start1
                    /\ IF rc.null
                       THEN /\ out' = <<[op |-> "null_write", a |-> NULL, b |-> NULL]>>
                            /\ pc' \in {"crashed", pc}
                       ELSE /\ out' = <<>>
                            /\ pc' = pc
                    /\ \E ret \in {item, WILD} :
                          event' = [kind |-> "add_item", arg |-> title, ret |-> ret]
    /\ UNCHANGED <<mode, taskReadKey_current, rotenc>>

(***************************************************************************)
(* The first draft of the menu (src/unnamed/part_000): a table of items    *)
(* wired by hand in their initialisers, an encoder handler and a button    *)
(* handler.  The items are numbered in the order of their declarations.    *)
(***************************************************************************)
s_menu_start == 1
s_menu_test == 2
s_menu_options == 3
s_menu_main_back == 4
s_menu_options_back == 5
s_menu_pwm == 6
s_menu_pwm_back == 7
s_menu_pwm_enable == 8
s_menu_pwm_freq == 9
s_menu_lo == 10
s_menu_lo_back == 11
s_menu_lo_enable == 12
s_menu_lo_delay == 13
s_menu_lo_duration == 14
s_menu_hi == 15
s_menu_hi_back == 16
s_menu_hi_enable == 17
s_menu_hi_delay == 18
s_menu_hi_duration == 19

\* A menu_item_t of the draft: {title, prev, next, parent, child, callback}.
part000_item(title, prev, next, parent, child, callback) ==
    [title |-> title, prev |-> prev, next |-> next, parent |-> parent,
     child |-> child, callback |-> callback]

\* The initialisers of the items; s_menu_main_back has none and is zero.
part000_items ==
    <<
       part000_item("Start", s_menu_options, s_menu_test, NULL, NULL, NULL),
       part000_item("Test", s_menu_start, s_menu_options, NULL, NULL, NULL),
       part000_item("Options", s_menu_test, s_menu_start, NULL, s_menu_options_back, NULL),
       part000_item("", NULL, NULL, NULL, NULL, NULL),
       part000_item("Back", s_menu_hi, s_menu_pwm, s_menu_options, NULL, NULL),
       part000_item("PWM", s_menu_options_back, s_menu_lo, NULL, s_menu_pwm_back, NULL),
       part000_item("Back", s_menu_pwm_enable, s_menu_pwm_freq, s_menu_options_back, NULL, NULL),
       part000_item("Enable", s_menu_pwm_freq, s_menu_pwm_back, NULL, NULL, NULL),
       part000_item("Freq", s_menu_pwm_back, s_menu_pwm_enable, NULL, NULL, NULL),
       part000_item("Lo Arm", s_menu_pwm, s_menu_hi, NULL, s_menu_lo_back, NULL),
       part000_item("Back", s_menu_lo_duration, s_menu_lo_enable, s_menu_options_back, NULL, NULL),
       part000_item("Enable", s_menu_lo_back, s_menu_lo_delay, NULL, NULL, NULL),
       part000_item("Delay", s_menu_lo_enable, s_menu_lo_duration, NULL, NULL, NULL),
       part000_item("Duration", s_menu_lo_duration, s_menu_lo_back, NULL, NULL, NULL),
       part000_item("Hi Arm", s_menu_lo, s_menu_options_back, NULL, s_menu_hi_back, NULL),
       part000_item("Back", s_menu_hi_duration, s_menu_hi_enable, s_menu_options_back, NULL, NULL),
       part000_item("Enable", s_menu_hi_back, s_menu_hi_delay, NULL, NULL, NULL),
       part000_item("Delay", s_menu_hi_enable, s_menu_hi_duration, NULL, NULL, NULL),
       part000_item("Duration", s_menu_hi_duration, s_menu_hi_back, NULL, NULL, NULL)
    >>

\* The items that have an initialiser.
part000_wired == DOMAIN part000_items \ {s_menu_main_back}

\* The int16_t delta of the draft's rotenc_data_t, on the scaled words:
\* half as many bits as the uint32_t fields.
Int16Modulus == 2 ^ (WordBits \div 2)
ToInt16(i) ==
    LET u == i % Int16Modulus
    IN IF u >= Int16Modulus \div 2 THEN u - Int16Modulus ELSE u

\* s_display_menu of the draft prints current->title and
\* current->next->title; the read through a NULL next stops the program.
part000_s_display_menu(cur) ==
    IF cur \in DOMAIN items /\ items[cur].next \in DOMAIN items
    THEN /\ out' = <<[op |-> "render", a |-> cur, b |-> items[cur].next]>>
         /\ pc' = pc
    ELSE /\ out' = <<>>
         /\ pc' = "crashed"

\* s_menu_set_current(delta) of the draft.
s_menu_set_current(its, cur, delta) ==
    IF delta > 0 THEN its[cur].next
    ELSE IF delta < 0 THEN its[cur].prev
    ELSE cur

\* s_rotary_encoder_callback of the draft.
part000_s_rotary_encoder_callback(raw) ==
    /\ pc = "run"
    /\ event' = [kind |-> "tick", arg |-> raw, ret |-> NULL]
    /\ IF raw % 2 = 0
       THEN LET delta == ToInt16(ToInt(raw \div 2) - ToInt(rotenc.current))
            IN /\ rotenc' = [delta |-> delta,
                             prev |-> rotenc.current,
                             current |-> ToUint(rotenc.current + delta)]
               /\ current' = s_menu_set_current(items, current, delta)
               /\ part000_s_display_menu(current')
       ELSE /\ out' = <<>>
            /\ UNCHANGED <<rotenc, current, pc>>
    /\ UNCHANGED <<mode, taskReadKey_current, items, static_array_pos, heap, start>>

\* s_push_button_callback of the draft.
part000_s_push_button_callback ==
    /\ pc = "run"
    /\ event' = [kind |-> "short", arg |-> NULL, ret |-> NULL]
    /\ current' = (IF items[current].child # NULL THEN items[current].child
                   ELSE IF items[current].parent # NULL THEN items[current].parent
                   ELSE current)
    /\ part000_s_display_menu(current')
    /\ UNCHANGED <<mode, taskReadKey_current, items, static_array_pos, heap, start,
                   rotenc>>

\* The draft when Menu_Init has made its first s_display_menu call: the
\* items are static objects, s_menu_current_item is &s_menu_start.
part000_Init ==
    /\ mode = MENU_USAGE_STATIC_MEMORY
    /\ items = part000_items
    /\ static_array_pos = 0
    /\ heap = {}
    /\ start = NULL
    /\ current = s_menu_start
    /\ rotenc = [current |-> 0, prev |-> 0, delta |-> 0]
    /\ taskReadKey_current = 0
    /\ pc = "run"
    /\ event = [kind |-> "init", arg |-> NULL, ret |-> NULL]
    /\ out = <<[op |-> "render", a |-> s_menu_start, b |-> s_menu_test]>>

(***************************************************************************)
(* Menu_Init: the menu of the application.  A local variable is named by   *)
(* the item its s_menu_add_item call returns when no call before it fails. *)
(***************************************************************************)
menu_start == 1
menu_test == 2
menu_options == 3
menu_opt_bck == 4
menu_pwm == 5
menu_lo_arm == 6
menu_hi_arm == 7
menu_pwm_back == 8
menu_lo_arm_back == 11
menu_hi_arm_back == 15

MenuInitCalls ==
    << [op |-> "add_item", title |-> "Start", parent |-> NULL, flags |-> 0],
       [op |-> "add_item", title |-> "Test", parent |-> NULL, flags |-> 0],
       [op |-> "add_item", title |-> "Options", parent |-> NULL, flags |-> 0],
       [op |-> "add_item", title |-> "Back", parent |-> menu_options,
        flags |-> MENU_FLAG_GOTO_PARENT],
       [op |-> "add_item", title |-> "PWM", parent |-> menu_options, flags |-> 0],
       [op |-> "add_item", title |-> "Lo Arm", parent |-> menu_options, flags |-> 0],
       [op |-> "add_item", title |-> "Hi Arm", parent |-> menu_options, flags |-> 0],
       [op |-> "set_child", item |-> menu_options, child |-> menu_opt_bck],
       [op |-> "add_item", title |-> "Back", parent |-> menu_pwm,
        flags |-> MENU_FLAG_GOTO_PARENT],
       [op |-> "add_item", title |-> "Enable", parent |-> menu_pwm, flags |-> 0],
       [op |-> "add_item", title |-> "Frequency", parent |-> menu_pwm, flags |-> 0],
       [op |-> "set_child", item |-> menu_pwm, child |-> menu_pwm_back],
       [op |-> "add_item", title |-> "Back", parent |-> menu_lo_arm,
        flags |-> MENU_FLAG_GOTO_PARENT],
       [op |-> "add_item", title |-> "Enable", parent |-> menu_lo_arm, flags |-> 0],
       [op |-> "add_item", title |-> "Delay", parent |-> menu_lo_arm, flags |-> 0],
       [op |-> "add_item", title |-> "Duration", parent |-> menu_lo_arm, flags |-> 0],
       [op |-> "set_child", item |-> menu_lo_arm, child |-> menu_lo_arm_back],
       [op |-> "add_item", title |-> "Back", parent |-> menu_hi_arm,
        flags |-> MENU_FLAG_GOTO_PARENT],
       [op |-> "add_item", title |-> "Enable", parent |-> menu_hi_arm, flags |-> 0],
       [op |-> "add_item", title |-> "Delay", parent |-> menu_hi_arm, flags |-> 0],
       [op |-> "add_item", title |-> "Duration", parent |-> menu_hi_arm, flags |-> 0],
       [op |-> "set_child", item |-> menu_hi_arm, child |-> menu_hi_arm_back] >>

\* The characters of the string literals of Menu_Init.
TitleChars(t) ==
    CASE t = "Start" -> <<"S", "t", "a", "r", "t">>
      [] t = "Test" -> <<"T", "e", "s", "t">>
      [] t = "Options" -> <<"O", "p", "t", "i", "o", "n", "s">>
      [] t = "Back" -> <<"B", "a", "c", "k">>
      [] t = "PWM" -> <<"P", "W", "M">>
      [] t = "Lo Arm" -> <<"L", "o", " ", "A", "r", "m">>
      [] t = "Hi Arm" -> <<"H", "i", " ", "A", "r", "m">>
      [] t = "Enable" -> <<"E", "n", "a", "b", "l", "e">>
      [] t = "Frequency" -> <<"F", "r", "e", "q", "u", "e", "n", "c", "y">>
      [] t = "Delay" -> <<"D", "e", "l", "a", "y">>
      [] t = "Duration" -> <<"D", "u", "r", "a", "t", "i", "o", "n">>

\* The number of s_menu_add_item calls among the first i calls of Menu_Init.
AddCalls(i) == Cardinality({j \in 1..i : MenuInitCalls[j].op = "add_item"})

\* Call i of Menu_Init has been made.
MenuInitDone(i) ==
    LET c == MenuInitCalls[i]
    IN IF c.op = "add_item"
       THEN AddCalls(i) <= Cardinality(Allocated)
       ELSE c.item \in Allocated /\ items[c.item].child = c.child

\* The call Menu_Init makes next; past the last one when all are made.
MenuInitPos ==
    IF \A i \in 1..Len(MenuInitCalls) : MenuInitDone(i)
    THEN Len(MenuInitCalls) + 1
    ELSE CHOOSE i \in 1..Len(MenuInitCalls) :
            /\ ~MenuInitDone(i)
            /\ \A j \in 1..(i - 1) : MenuInitDone(j)

\* The title Menu_Init gives to item x: that of the s_menu_add_item call
\* that returned it.
ItemTitle(x) ==
    MenuInitCalls[CHOOSE i \in 1..Len(MenuInitCalls) :
                    MenuInitCalls[i].op = "add_item" /\ AddCalls(i) = x].title

\* Menu_Init with the two arguments of s_menu_set_child exchanged.
Menu_Init_call_swapped ==
    /\ MenuInitPos <= Len(MenuInitCalls)
    /\ LET c == MenuInitCalls[MenuInitPos]
       IN IF c.op = "add_item"
          THEN s_menu_add_item(TitleChars(c.title), c.parent, NULL, c.flags)
          ELSE s_menu_set_child(c.child, c.item)

\* One s_menu_add_item or s_menu_set_child call of Menu_Init.
Menu_Init_call ==
    /\ MenuInitPos <= Len(MenuInitCalls)
    /\ LET c == MenuInitCalls[MenuInitPos]
       IN IF c.op = "add_item"
          THEN s_menu_add_item(TitleChars(c.title), c.parent, NULL, c.flags)
          ELSE s_menu_set_child(c.item, c.child)

\* The last statement of Menu_Init: the call of s_menu_init.
Menu_Init_finish ==
    /\ MenuInitPos > Len(MenuInitCalls)
    /\ s_menu_init

\* The item store before Menu_Init, at its real size.
MENU_SIZE_0x20 == 32
MENU_ITEM_TITLE_LEN_0x10 == 16

Menu_Init_start ==
    /\ mode \in {MENU_USAGE_STATIC_MEMORY, MENU_USAGE_DYNAMIC_MEMORY}
    /\ items = [s \in 1..MENU_SIZE_0x20 |->
                  [ZeroItem EXCEPT !.title = [i \in 1..MENU_ITEM_TITLE_LEN_0x10 |-> NUL]]]
    /\ static_array_pos = 0
    /\ heap = {}
    /\ start = NULL
    /\ current = NULL
    /\ rotenc = [current |-> 0, prev |-> 0, delta |-> 0]
    /\ taskReadKey_current = 0
    /\ pc = "build"
    /\ event = [kind |-> "none", arg |-> NULL, ret |-> NULL]
    /\ out = <<>>

Init ==
    /\ mode \in {MENU_USAGE_STATIC_MEMORY, MENU_USAGE_DYNAMIC_MEMORY}
    /\ items = [s \in Slots |-> ZeroItem]
    /\ static_array_pos = 0
    /\ heap = {}
    /\ start = NULL
    /\ current = NULL
    /\ rotenc = [current |-> 0, prev |-> 0, delta |-> 0]
    /\ taskReadKey_current = 0
    /\ pc = "build"
    /\ event = [kind |-> "none", arg |-> NULL, ret |-> NULL]
    /\ out = <<>>

ChildrenOf(p) == {y \in Allocated : items[y].parent = p}

\* The calls the menu definition and the input source can make.  Cbs and
\* Flags are the callbacks and flags the menu definition attaches, Raws the
\* readings the encoder delivers.
\* A menu definition that names as parent an item no call has returned yet.
AddItem_any_parent(Cbs, Flags) ==
    \E parent \in {NULL} \cup DOMAIN items, callback \in Cbs, flags \in Flags :
        s_menu_add_item(ShortTitle, parent, callback, flags)

AddItem(Cbs, Flags) ==
    \E parent \in {NULL} \cup Allocated, callback \in Cbs, flags \in Flags :
        s_menu_add_item(ShortTitle, parent, callback, flags)

\* The menu definition adds a root item under any of the titles.
AddTitled ==
    \E title \in TitleInputs : s_menu_add_item(title, NULL, NULL, 0)

\* The menu definition wires an item to one of its children, as Menu_Init does.
SetChild ==
    \E item \in Allocated : \E child \in ChildrenOf(item) :
        s_menu_set_child(item, child)

\* s_menu_set_child with NULL arguments as well: the item is NULL or an
\* item, the child NULL or one of the items under it.
SetChildAny ==
    \E item \in {NULL} \cup Allocated : \E child \in {NULL} \cup ChildrenOf(item) :
        s_menu_set_child(item, child)

RechainCall == \E parent \in {NULL} \cup Allocated : Rechain(parent)

\* An encoder that delivers any of the readings Raws.
Tick(Raws) ==
    /\ \E raw \in Raws : s_rotary_encoder_callback(raw)
    /\ UNCHANGED taskReadKey_current

\* taskReadKey reads the up-arrow key: "current -= 2" on its uint32_t
\* counter, then the encoder handler is called with the counter.
ArrowUp ==
    /\ taskReadKey_current' = ToUint(taskReadKey_current - 2)
    /\ s_rotary_encoder_callback(taskReadKey_current')

\* taskReadKey reads the down-arrow key: "current += 2".
ArrowDown ==
    /\ taskReadKey_current' = ToUint(taskReadKey_current + 2)
    /\ s_rotary_encoder_callback(taskReadKey_current')

\* The application calls Menu_Init once more after the first call has
\* returned: s_menu_handle and s_menu_items are static objects and keep what
\* the first call and the navigation left in them.  In dynamic-memory mode
\* the items have been passed to free by then; the second call is followed
\* in static-memory mode.
Menu_Init_again ==
    /\ pc = "done"
    /\ mode = MENU_USAGE_STATIC_MEMORY
    /\ pc' = "build"
    /\ event' = [kind |-> "menu_init", arg |-> NULL, ret |-> NULL]
    /\ out' = <<>>
    /\ UNCHANGED <<mode, taskReadKey_current, items, static_array_pos, heap, start,
                   current, rotenc>>

\* Construction only: add_item and rechain calls.
NextBuild ==
    \/ AddItem(CallbackInputs, {0, MENU_FLAG_GOTO_PARENT})
    \/ RechainCall

SpecBuild == Init /\ [][NextBuild]_vars

\* Construction, s_menu_init, then the events taskReadKey delivers, for
\* menus whose items may carry callbacks.
NextTick ==
    \/ AddItem(CallbackInputs, {0})
    \/ SetChild
    \/ s_menu_init
    \/ Tick(RawReadings)
    \/ s_push_button_callback
    \/ s_long_push_button_callback

SpecTick == Init /\ [][NextTick]_vars

\* The same for menus whose items carry flags and no callbacks.
NextPress ==
    \/ AddItem({NULL}, FlagInputs)
    \/ SetChild
    \/ s_menu_init
    \/ Tick(0..MaxRawPress)
    \/ s_push_button_callback
    \/ s_long_push_button_callback

SpecPress == Init /\ [][NextPress]_vars

\* The program: Menu_Init builds its menu, taskReadKey delivers events until
\* Esc is read, s_menu_init frees the items and returns.
NextMenu ==
    \/ Menu_Init_call
    \/ Menu_Init_finish
    \/ Tick(RawReadings)
    \/ s_push_button_callback
    \/ s_long_push_button_callback
    \/ Escape
    \/ s_menu_init_return

SpecMenu == Menu_Init_start /\ [][NextMenu]_vars

\* The life of any menu without flags and callbacks, from the first
\* s_menu_add_item to the return of s_menu_init.
NextTeardown ==
    \/ AddItem({NULL}, {0})
    \/ s_menu_init
    \/ Tick(0..MaxRawPress)
    \/ s_long_push_button_callback
    \/ Escape
    \/ s_menu_init_return

SpecTeardown == Init /\ [][NextTeardown]_vars

\* Construction with s_menu_set_child calls of every kind.
NextSetChild ==
    \/ AddItem({NULL}, {0, MENU_FLAG_GOTO_PARENT})
    \/ SetChildAny

SpecSetChild == Init /\ [][NextSetChild]_vars

\* Root items under titles of every length, then s_menu_init and its render.
NextTitle ==
    \/ AddTitled
    \/ s_menu_init

SpecTitle == Init /\ [][NextTitle]_vars

\* Menu_Init called again after it has returned: s_menu_add_item runs with
\* the cursor where s_menu_init and the navigation left it.
NextReentry ==
    \/ AddItem({NULL}, {0})
    \/ s_menu_init
    \/ Tick(0..MaxRawPress)
    \/ Escape
    \/ s_menu_init_return
    \/ Menu_Init_again

SpecReentry == Init /\ [][NextReentry]_vars

\* Construction with the s_menu_add_item of the draft src/menu03.c.
NextDraft03 ==
    \E parent \in {NULL} \cup Allocated, flags \in {0, MENU_FLAG_GOTO_PARENT} :
        menu03_s_menu_add_item(ShortTitle, parent, NULL, flags)

SpecDraft03 == Init /\ [][NextDraft03]_vars

\* The draft src/unnamed/part_000 under readings and short presses.
NextPart000 ==
    \/ \E raw \in RawReadings : part000_s_rotary_encoder_callback(raw)
    \/ part000_s_push_button_callback

SpecPart000 == part000_Init /\ [][NextPart000]_vars

\* The console driver: a menu without flags and callbacks is built, then
\* taskReadKey turns arrow keys into encoder readings.
NextConsole ==
    \/ AddItem({NULL}, {0})
    \/ s_menu_init
    \/ ArrowUp
    \/ ArrowDown

SpecConsole == Init /\ [][NextConsole]_vars

(***************************************************************************)
(* Properties of the sibling rings (checked under SpecBuild).              *)
(***************************************************************************)
ParentValues == {NULL} \cup Allocated
Siblings(x) == {y \in Allocated : items[y].parent = items[x].parent}

\* C1 - Ring closure: after every add_item and every rechain call, every
\* allocated item x has x.next.prev == x and x.prev.next == x.
C1_RingClosure ==
    \A x \in Allocated :
        /\ items[x].next \in Allocated
        /\ items[x].prev \in Allocated
        /\ items[items[x].next].prev = x
        /\ items[items[x].prev].next = x

\* A successful add_item has just closed a ring of three items.
C1_Witness ==
    /\ event.kind = "add_item"
    /\ event.ret # NULL
    /\ Cardinality(Siblings(event.ret)) = 3
    /\ C1_RingClosure

\* The items with parent p in the order add_item created them (the item
\* store hands out slots in increasing order).
RECURSIVE InCreationOrder(_)
InCreationOrder(S) ==
    IF S = {} THEN <<>>
    ELSE LET m == CHOOSE x \in S : \A y \in S : x <= y
         IN <<m>> \o InCreationOrder(S \ {m})

\* C2 - Ring order equals creation order: for every parent value p, with
\* c_1..c_k the items of parent p in creation order, c_i.next is the item
\* created after it (the first one after the last) and c_i.prev the one
\* created before it (the last one before the first).
C2_RingOrderIsCreationOrder ==
    \A p \in ParentValues :
        LET c == InCreationOrder(ChildrenOf(p))
            k == Len(c)
        IN \A i \in 1..k :
              /\ items[c[i]].next = c[(i % k) + 1]
              /\ items[c[i]].prev = c[((i + k - 2) % k) + 1]

\* A, B, C added under one parent: A,B,C,A forward and A,C,B,A backward.
C2_Witness ==
    /\ event.kind = "add_item"
    /\ event.ret = 3
    /\ \E p \in ParentValues : ChildrenOf(p) = {1, 2, 3}
    /\ items[1].next = 2 /\ items[2].next = 3 /\ items[3].next = 1
    /\ items[1].prev = 3 /\ items[3].prev = 2 /\ items[2].prev = 1

\* The item reached from x by n steps along field f ("next" or "prev");
\* NULL when the walk leaves the allocated items.
RECURSIVE Follow(_, _, _)
Follow(f, x, n) ==
    IF n = 0 THEN x
    ELSE IF x \notin Allocated THEN NULL
    ELSE Follow(f, IF f = "next" THEN items[x].next ELSE items[x].prev, n - 1)

\* C3 - Ring period: with k the number of items sharing x's parent, k steps
\* of next from x return to x and no smaller positive number does; the
\* same for prev.
C3_RingPeriod ==
    \A x \in Allocated :
        LET k == Cardinality(Siblings(x))
        IN \A f \in {"next", "prev"} :
              /\ Follow(f, x, k) = x
              /\ \A j \in 1..(k - 1) : Follow(f, x, j) # x

\* Two rings of different sizes (2 and 1) exist after an add_item.
C3_Witness ==
    /\ event.kind = "add_item"
    /\ event.ret # NULL
    /\ \E x \in Allocated, y \in Allocated :
          /\ Cardinality(Siblings(x)) = 2
          /\ Cardinality(Siblings(y)) = 1
          /\ Follow("next", x, 2) = x
          /\ Follow("prev", y, 1) = y

\* C5 - Idempotence of rechain: right after rechain(p) has run (on its own
\* or as the last step of a successful add_item with parent p), a second
\* rechain(p) leaves every item as the first call left it.
C5_RechainIdempotent ==
    /\ event.kind = "rechain" =>
          s_menu_rechain(items, start, event.arg) = items
    /\ (event.kind = "add_item" /\ event.ret # NULL) =>
          s_menu_rechain(items, start, items[event.ret].parent) = items

\* rechain(p) was called on its own for a parent p that has two children.
C5_Witness ==
    /\ event.kind = "rechain"
    /\ Cardinality(ChildrenOf(event.arg)) = 2
    /\ s_menu_rechain(items, start, event.arg) = items

\* C6 - Exhaustion fails closed: in static-memory mode an add_item call
\* made when MENU_SIZE items are allocated returns NULL and changes no
\* item, nor start, current or static_array_pos.
C6_ExhaustionFailsClosed ==
    [][(/\ mode = MENU_USAGE_STATIC_MEMORY
        /\ static_array_pos = MENU_SIZE
        /\ event'.kind = "add_item")
       => (/\ event'.ret = NULL
           /\ UNCHANGED <<items, start, current, static_array_pos>>)]_vars

\* The static array is full and the last add_item returned NULL.
C6_Witness ==
    /\ mode = MENU_USAGE_STATIC_MEMORY
    /\ static_array_pos = MENU_SIZE
    /\ event.kind = "add_item"
    /\ event.ret = NULL
    /\ current = MENU_SIZE
    /\ start = 1

(***************************************************************************)
(* Properties of navigation (checked under SpecTick and SpecPress).                          *)
(***************************************************************************)
SameParentLinks ==
    \A x \in Allocated :
        /\ items[x].next \in Allocated
        /\ items[x].prev \in Allocated
        /\ items[items[x].next].parent = items[x].parent
        /\ items[items[x].prev].parent = items[x].parent

\* C4 - Ring containment: in every state reached by add_item/set_child
\* calls and navigation events, x.next and x.prev have the parent of x, and
\* an encoder tick never changes the parent of current.
C4_RingContainment ==
    /\ []SameParentLinks
    /\ [][event'.kind = "tick" => items[current'].parent = items[current].parent]_vars

\* An accepted tick moved the focus inside a ring below some parent while
\* an item with another parent exists.
C4_Witness ==
    /\ event.kind = "tick"
    /\ rotenc.delta # 0
    /\ out = <<[op |-> "render", a |-> current, b |-> items[current].next]>>
    /\ items[current].parent # NULL
    /\ items[current].next # current
    /\ \E y \in Allocated : items[y].parent # items[current].parent

GoToChild(x) == HasFlag(items[x].flags, MENU_FLAG_GOTO_CHILD) /\ items[x].child # NULL
GoToParent(x) == HasFlag(items[x].flags, MENU_FLAG_GOTO_PARENT) /\ items[x].parent # NULL

\* C7 - Short press: with the go-to-child flag and a child, current becomes
\* current.child; otherwise with the go-to-parent flag and a parent, current
\* becomes current.parent; otherwise current stays.  Descent has priority.
C7_ShortPress ==
    [][event'.kind = "short" =>
         current' = IF GoToChild(current) THEN items[current].child
                    ELSE IF GoToParent(current) THEN items[current].parent
                    ELSE current]_vars

\* A short press ended on an item that every possible origin reaches only
\* by descending, each such origin also satisfying the ascent condition.
C7_Witness ==
    /\ event.kind = "short"
    /\ pc = "run"
    /\ GoToParent(current)
    /\ ~GoToChild(current)
    /\ \E y \in Allocated : items[y].child = current
    /\ \A y \in Allocated :
          (items[y].child = current \/ items[y].parent = current)
             => (/\ GoToChild(y) /\ GoToParent(y)
                 /\ items[y].child = current
                 /\ items[y].parent # current)

\* C8 - Long press: current becomes current.parent when that is non-empty
\* and start otherwise, whatever the flags of current.
C8_LongPress ==
    [][event'.kind = "long" =>
         current' = IF items[current].parent # NULL THEN items[current].parent
                    ELSE start]_vars

\* A long press ended on an item that is not start and has a parent itself,
\* so it was reached by ascending, and none of its children carries the
\* go-to-parent flag.
C8_Witness ==
    /\ event.kind = "long"
    /\ pc = "run"
    /\ current # start
    /\ items[current].parent # NULL
    /\ ChildrenOf(current) # {}
    /\ \A y \in ChildrenOf(current) : ~HasFlag(items[y].flags, MENU_FLAG_GOTO_PARENT)

\* C9 - Encoder navigation: on an accepted reading while current has no
\* callback, current becomes current.next for delta > 0, current.prev for
\* delta < 0 and stays for delta == 0.
C9_EncoderNavigation ==
    [][(/\ event'.kind = "tick"
        /\ event'.arg % ENCODER_INPUT_FILTER = 0
        /\ items[current].callback = NULL)
       => current' = IF rotenc'.delta > 0 THEN items[current].next
                     ELSE IF rotenc'.delta < 0 THEN items[current].prev
                     ELSE current]_vars

\* A backward tick in a ring of three items without callbacks, where
\* backward and forward lead to different items.
C9_Witness ==
    /\ event.kind = "tick"
    /\ event.arg % ENCODER_INPUT_FILTER = 0
    /\ rotenc.delta < 0
    /\ Cardinality(Siblings(current)) = 3
    /\ \A y \in Siblings(current) : items[y].callback = NULL
    /\ out = <<[op |-> "render", a |-> current, b |-> items[current].next]>>

\* C10 - Debounce: a reading that is no multiple of ENCODER_INPUT_FILTER
\* leaves position, prev, delta and current unchanged, invokes no callback
\* and requests no render; a multiple is accepted and sets position.
C10_DebounceRejection ==
    [][event'.kind = "tick" =>
         IF event'.arg % ENCODER_INPUT_FILTER # 0
         THEN UNCHANGED <<rotenc, current>> /\ out' = <<>>
         ELSE rotenc'.current = event'.arg \div 2]_vars

\* Reading 5 arrived after reading 4 was accepted at position 1, on an item
\* that has a callback: position, prev and delta are as reading 4 left them
\* and nothing was invoked.
C10_Witness ==
    /\ event.kind = "tick"
    /\ event.arg = 5
    /\ rotenc = [current |-> 2, prev |-> 1, delta |-> 1]
    /\ items[current].callback # NULL
    /\ out = <<>>

(***************************************************************************)
(* Properties of the encoder handler (checked under SpecTick).             *)
(***************************************************************************)
\* C11 - Accepted-reading arithmetic: an accepted raw reading r that arrives
\* with position p sets delta = r/2 - p and position = p + delta, so that
\* afterwards position == r/2 and the stored previous value == p.
C11_AcceptedArithmetic ==
    [][event'.kind = "tick" /\ event'.arg % ENCODER_INPUT_FILTER = 0 =>
         /\ rotenc'.delta = (event'.arg \div 2) - rotenc.current
         /\ rotenc'.current = (rotenc.current + rotenc'.delta) % UintModulus
         /\ rotenc'.current = event'.arg \div 2
         /\ rotenc'.prev = rotenc.current]_vars

\* The reading 0 has just been accepted at position 2: delta is -2, the
\* position is 0 and the previous position 2.
C11_Witness ==
    /\ event.kind = "tick"
    /\ event.arg = 0
    /\ rotenc = [current |-> 0, prev |-> 2, delta |-> -2]

\* C12 - Callback preemption: an accepted reading that arrives while the
\* current item has a callback calls that callback exactly once and leaves
\* current where it was, whatever the sign of delta.
C12_CallbackPreemption ==
    [][/\ event'.kind = "tick"
       /\ event'.arg % ENCODER_INPUT_FILTER = 0
       /\ items[current].callback # NULL
       => /\ current' = current
          /\ Len(SelectSeq(out', LAMBDA o : o.op = "callback")) = 1
          /\ \A i \in 1..Len(out') :
                out'[i].op = "callback" => out'[i].a = current]_vars

\* The callback of an item of a three-item ring has been called on a
\* reading that moved the encoder backwards.
C12_Witness ==
    /\ event.kind = "tick"
    /\ rotenc.delta < 0
    /\ current \in Allocated
    /\ items[current].callback # NULL
    /\ items[current].prev # current
    /\ items[current].prev # items[current].next
    /\ out = <<[op |-> "callback", a |-> current, b |-> NULL]>>

Renders(o) == SelectSeq(o, LAMBDA c : c.op = "render")

\* C13 - Render after every event: every accepted encoder tick, whether or
\* not the current item has a callback, every short press and every long
\* press ends with exactly one render request, made for the resulting
\* current item.
C13_RenderAfterEveryEvent ==
    [][\/ event'.kind = "tick" /\ event'.arg % ENCODER_INPUT_FILTER = 0
       \/ event'.kind \in {"short", "long"}
       => /\ Len(Renders(out')) = 1
          /\ Renders(out')[1].a = current']_vars

(***************************************************************************)
(* Properties of the render requests (checked under SpecPress).            *)
(***************************************************************************)
\* C14 - Peek-ahead render arguments: every render request passes the title
\* of the current item and the title of current.next as they are after the
\* transition: the second line is the ring successor of the newly focused
\* item, also after a backward tick, a descent or an ascent.
C14_PeekAheadRender ==
    \A i \in 1..Len(out) :
        out[i].op = "render" =>
            /\ out[i].a = current
            /\ out[i].b = items[current].next

\* A backward tick has moved the focus inside a ring of three items, whose
\* successor and predecessor differ, and the render names the successor.
C14_Witness ==
    /\ event.kind = "tick"
    /\ rotenc.delta < 0
    /\ current \in Allocated
    /\ items[current].next # items[current].prev
    /\ items[current].next # current
    /\ out = <<[op |-> "render", a |-> current, b |-> items[current].next]>>

(***************************************************************************)
(* Long presses (checked under SpecPress).                                 *)
(***************************************************************************)
\* The number of parent links above x, and the item at the top of them.
RECURSIVE Depth(_)
Depth(x) == IF items[x].parent = NULL THEN 0 ELSE 1 + Depth(items[x].parent)

RECURSIVE RootAncestor(_)
RootAncestor(x) == IF items[x].parent = NULL THEN x ELSE RootAncestor(items[x].parent)

\* The current item after n long presses made with x as the current item.
RECURSIVE LongPresses(_, _)
LongPresses(x, n) ==
    IF n = 0 THEN x ELSE LongPresses(LongPushTarget(items, x, start), n - 1)

\* C16 - Long press always leads home: from a current item at depth d, d
\* long presses make current its root-level ancestor and one more makes
\* current == start; a long press at start leaves current == start; every
\* one of these presses renders and reads through no empty pointer.
C16_LongPressLeadsHome ==
    /\ [](pc = "run" =>
            LET d == Depth(current)
            IN /\ LongPresses(current, d) = RootAncestor(current)
               /\ LongPresses(current, d + 1) = start
               /\ LongPresses(start, 1) = start
               /\ \A k \in 0..(d + 1) : CanDisplay(items, LongPresses(current, k)))
    /\ [][event'.kind = "long" =>
            /\ current' = (IF Depth(current) > 0 THEN items[current].parent ELSE start)
            /\ current' = LongPresses(current, 1)
            /\ pc' = "run"
            /\ out' = <<[op |-> "render", a |-> current',
                         b |-> items[current'].next]>>]_vars

\* A long press has arrived at an item of depth one that is not start: it
\* was made at one of its children, two levels below the root.
C16_Witness ==
    /\ event.kind = "long"
    /\ current \in Allocated
    /\ Depth(current) = 1
    /\ \E x \in Allocated : items[x].parent = current
    /\ out = <<[op |-> "render", a |-> current, b |-> items[current].next]>>

(***************************************************************************)
(* Properties of the program with Menu_Init's menu (checked under SpecMenu).*)
(***************************************************************************)
\* p descends to c and c ascends to p: p has the go-to-child flag and the
\* child c, c has the parent p, the go-to-parent flag and no child.
RoundTripPair(p, c) ==
    /\ p \in Allocated
    /\ c \in Allocated
    /\ HasFlag(items[p].flags, MENU_FLAG_GOTO_CHILD)
    /\ items[p].child = c
    /\ items[c].parent = p
    /\ HasFlag(items[c].flags, MENU_FLAG_GOTO_PARENT)
    /\ items[c].child = NULL

\* C15 - Descent/ascent round trip: for an item p with the go-to-child flag
\* and child c, where c.parent == p, c has the go-to-parent flag and no
\* child, a short press at p makes current == c and a short press at c makes
\* current == p again; Options and its Back item in Menu_Init's menu are
\* such a pair.
C15_RoundTrip ==
    /\ [](pc = "run" => RoundTripPair(menu_options, menu_opt_bck))
    /\ [][event'.kind = "short" =>
            /\ RoundTripPair(current, items[current].child) =>
                    /\ current' = items[current].child
                    /\ RoundTripPair(current, current')
            /\ RoundTripPair(items[current].parent, current) =>
                    /\ current' = items[current].parent
                    /\ RoundTripPair(current', current)]_vars

\* A short press has brought the focus back to Options, which only its
\* Back item can do, and the render shows Options and its successor Start.
C15_Witness ==
    /\ event.kind = "short"
    /\ current = menu_options
    /\ out = <<[op |-> "render", a |-> menu_options, b |-> menu_start]>>

\* C17 - Cursor validity: after Menu_Init's construction and after every
\* encoder tick, short press and long press that follows it, current is not
\* NULL and is an allocated item, and so are current.next and current.prev:
\* no handler and no render reads through an empty pointer.
C17_CursorValidity ==
    event.kind \in {"init", "tick", "short", "long"} =>
        /\ pc = "run"
        /\ current # NULL
        /\ current \in Allocated
        /\ items[current].next # NULL
        /\ items[current].next \in Allocated
        /\ items[current].prev # NULL
        /\ items[current].prev \in Allocated

\* A backward tick has moved the focus inside a submenu two levels below
\* the root of Menu_Init's menu.
C17_Witness ==
    /\ event.kind = "tick"
    /\ rotenc.delta < 0
    /\ Cardinality(Allocated) = AddCalls(Len(MenuInitCalls))
    /\ current \in Allocated
    /\ Depth(current) = 2
    /\ out = <<[op |-> "render", a |-> current, b |-> items[current].next]>>

\* C18 - Initial focus: every successful add_item leaves current on the item
\* just added, and s_menu_init, called after the last add_item/set_child of
\* Menu_Init, resets current to start, the first item ever added, before
\* the initial render: the first render shows the titles of start and
\* start.next, and the first input event finds current == start.
C18_InitialFocus ==
    /\ event.kind = "add_item" /\ event.ret # NULL => current = event.ret
    /\ event.kind = "init" =>
          /\ MenuInitPos > Len(MenuInitCalls)
          /\ pc = "run"
          /\ start = menu_start
          /\ current = start
          /\ out = <<[op |-> "render", a |-> start, b |-> items[start].next]>>
          /\ ItemTitle(out[1].a) = "Start"
          /\ ItemTitle(out[1].b) = "Test"

\* s_menu_init has just run on the complete menu: the focus is on Start,
\* not on the item added last, and the render shows Start and Test.
C18_Witness ==
    /\ event.kind = "init"
    /\ Cardinality(Allocated) = AddCalls(Len(MenuInitCalls))
    /\ items[Cardinality(Allocated)].folowing = NULL
    /\ current = menu_start
    /\ current # Cardinality(Allocated)
    /\ out = <<[op |-> "render", a |-> menu_start, b |-> menu_test]>>

(***************************************************************************)
(* Properties of s_menu_free_items.                                        *)
(***************************************************************************)
\* The calls of free(x) in the record of a walk.
Frees(o, x) == SelectSeq(o, LAMBDA c : c.op = "free" /\ c.a = x)

\* C19 - Teardown completeness: in dynamic-memory mode s_menu_free_items
\* releases every allocated item exactly once: when it returns no allocated
\* item is left unreleased and none has been released twice.
C19_TeardownCompleteness ==
    event.kind = "return" /\ mode = MENU_USAGE_DYNAMIC_MEMORY =>
        /\ heap = {}
        /\ \A x \in DOMAIN items : Len(Frees(out, x)) <= 1

\* C20 - Teardown memory safety: during s_menu_free_items no field of an
\* item, its folowing link in particular, is read after the item has been
\* passed to free, and the walk ends after visiting each item of the
\* folowing chain once.
C20_TeardownMemorySafety ==
    event.kind = "return" /\ mode = MENU_USAGE_DYNAMIC_MEMORY =>
        /\ pc = "done"
        /\ \A i \in 1..Len(out) : out[i].op \in {"read", "free"}
        /\ \A i \in 1..Len(out) : \A j \in (i + 1)..Len(out) :
              out[i].op = "free" => out[j].a # out[i].a
        /\ Len(out) <= 3 * Cardinality(heap \cup {out[i].a : i \in 1..Len(out)})

\* The walk over a chain of at least three items has returned: it read and
\* released the first two and stopped at the third.
C20_Witness ==
    /\ event.kind = "return"
    /\ mode = MENU_USAGE_DYNAMIC_MEMORY
    /\ pc = "done"
    /\ Len(Frees(out, 1)) = 1
    /\ Len(Frees(out, 2)) = 1
    /\ out[Len(out)] = [op |-> "read", a |-> 3, b |-> NULL]

\* The items of the folowing chain that have been passed to free.
ReleasedItems ==
    {x \in DOMAIN items :
        /\ mode = MENU_USAGE_DYNAMIC_MEMORY
        /\ x \notin heap
        /\ \/ x = start
           \/ \E y \in DOMAIN items : items[y].folowing = x}

\* C21 - Teardown ordering: s_menu_free_items starts only after the input
\* loop has returned, and no encoder, short-press or long-press handler and
\* no render runs once teardown has released an item.
C21_TeardownOrdering ==
    /\ [](event.kind \in {"init", "tick", "short", "long"} => ReleasedItems = {})
    /\ [][event'.kind = "return" => pc = "exit" /\ event.kind = "esc"]_vars
    /\ [][(pc = "exit" \/ pc = "done") =>
            /\ event'.kind \notin {"init", "tick", "short", "long"}
            /\ Len(Renders(out')) = 0]_vars

\* s_menu_init has returned in dynamic-memory mode after the walk released
\* the first items of Menu_Init's menu, and the last event before Esc was a
\* key handled by the input loop.
C21_Witness ==
    /\ event.kind = "return"
    /\ pc = "done"
    /\ mode = MENU_USAGE_DYNAMIC_MEMORY
    /\ menu_start \in ReleasedItems
    /\ menu_options \in ReleasedItems
    /\ rotenc.current # 0

(***************************************************************************)
(* Properties of the item fields.                                          *)
(***************************************************************************)
\* t holds the first k characters of src and then a terminator.
TerminatedPrefix(t, src) ==
    \E k \in 0..(Len(t) - 1) :
        /\ k <= Len(src)
        /\ \A i \in 1..k : t[i] = src[i]
        /\ t[k + 1] = NUL

\* C22 - Title truncation is terminated: for every title passed to
\* add_item, also one of MENU_ITEM_TITLE_LEN or more characters, the stored
\* title is a prefix of the input followed by a terminator inside the
\* field, so that no render reads past the field.
C22_TitleTerminated ==
    /\ event.kind = "add_item" /\ event.ret # NULL =>
          TerminatedPrefix(items[event.ret].title, event.arg)
    /\ \A i \in 1..Len(out) : out[i].op # "overread"

\* C23 - Defined fresh items: in both storage modes the item the store
\* returns has every field (title, prev, next, folowing, parent, child,
\* callback, data, flags) zero/empty before add_item populates it, and the
\* field add_item never writes, data, is still defined afterwards.
C23_DefinedFreshItems ==
    [][event'.kind = "add_item" /\ event'.ret # NULL =>
         /\ \A gp \in GarbagePtr, gn \in GarbagePtr :
               s_create_new_item(gp, gn).its[event'.ret] = ZeroItem
         /\ items'[event'.ret].data = 0]_vars

\* The flag bits of the uint8_t flags field other than MENU_FLAG_GOTO_CHILD.
OtherFlagBits == {1, 2, 4, 8, 16, 64, 128}

\* C24 - set_child effect: set_child(item, c) with a non-empty item sets
\* item.child = c and adds the go-to-child flag while keeping the other
\* flags of item, and changes no other field of any item, nor start or
\* current; with an empty item it changes nothing.
C24_SetChildEffect ==
    [][event'.kind = "set_child" =>
         LET item == event'.arg[1]
             c == event'.arg[2]
         IN /\ start' = start
            /\ current' = current
            /\ rotenc' = rotenc
            /\ IF item = NULL
               THEN items' = items
               ELSE /\ items'[item].child = c
                    /\ HasFlag(items'[item].flags, MENU_FLAG_GOTO_CHILD)
                    /\ \A bit \in OtherFlagBits :
                          HasFlag(items'[item].flags, bit) = HasFlag(items[item].flags, bit)
                    /\ [items'[item] EXCEPT !.child = NULL, !.flags = 0]
                          = [items[item] EXCEPT !.child = NULL, !.flags = 0]
                    /\ \A x \in DOMAIN items : x # item => items'[x] = items[x]]_vars

\* set_child has just wired an item that carries the go-to-parent flag to
\* a child: it has both flags now.
C24_Witness ==
    /\ event.kind = "set_child"
    /\ event.arg[1] \in Allocated
    /\ event.arg[2] \in Allocated
    /\ items[event.arg[1]].child = event.arg[2]
    /\ items[event.arg[1]].flags = MENU_FLAG_GOTO_PARENT + MENU_FLAG_GOTO_CHILD

(***************************************************************************)
(* Properties of the graph s_menu_add_item builds (checked under SpecBuild).*)
(***************************************************************************)
\* The item n parent links above x; the walk stops where it leaves the
\* allocated items.
RECURSIVE Ancestor(_, _)
Ancestor(x, n) ==
    IF n = 0 \/ x \notin Allocated THEN x ELSE Ancestor(items[x].parent, n - 1)

\* C25 - Parent chain is acyclic: when every parent argument is NULL or an
\* item returned before, following parent links from any item reaches an
\* item without parent in fewer steps than there are items.
C25_ParentChainAcyclic ==
    \A x \in Allocated :
        \E n \in 0..(Cardinality(Allocated) - 1) :
            /\ Ancestor(x, n) \in Allocated
            /\ items[Ancestor(x, n)].parent = NULL

\* Three items, each the parent of the next: the chain from the third has
\* the greatest length three items allow.
C25_Witness ==
    /\ event.kind = "add_item"
    /\ event.ret = 3
    /\ items[3].parent = 2
    /\ items[2].parent = 1
    /\ items[1].parent = NULL

\* The items met along the folowing links from x, at most fuel of them.
RECURSIVE BuildChain(_, _)
BuildChain(x, fuel) ==
    IF fuel = 0 \/ x \notin Allocated THEN <<>>
    ELSE <<x>> \o BuildChain(items[x].folowing, fuel - 1)

\* C26 - Build-order chain: after any sequence of add_item calls start is
\* the first item ever created, and the folowing links from start visit
\* every allocated item exactly once, in creation order, and end at the
\* item added last, whose link is NULL and which is current.
C26_BuildOrderChain ==
    LET n == Cardinality(Allocated)
    IN /\ Allocated = 1..n
       /\ BuildChain(start, n + 1) = [i \in 1..n |-> i]
       /\ n = 0 => start = NULL /\ current = NULL
       /\ n > 0 => /\ start = 1
                   /\ current = n
                   /\ items[n].folowing = NULL

\* The third item has been added: the chain is 1, 2, 3 and ends there.
C26_Witness ==
    /\ event.kind = "add_item"
    /\ event.ret = 3
    /\ start = 1
    /\ BuildChain(start, 4) = <<1, 2, 3>>
    /\ items[3].folowing = NULL

\* C27 - Short press as the comment of s_push_button_callback documents it:
\* with a child the focus moves to the child; without a child but with a
\* parent it returns to the parent; it stays only when the current item has
\* neither.
C27_ShortPressAsDocumented ==
    [][event'.kind = "short" =>
         current' = (IF items[current].child # NULL THEN items[current].child
                     ELSE IF items[current].parent # NULL THEN items[current].parent
                     ELSE current)]_vars

\* C28 - Event write set: no encoder tick, short press or long press changes
\* a field of an item (title, prev, next, folowing, parent, child, callback,
\* flags) or start; short and long presses leave the encoder state
\* unchanged as well, and so does a rejected tick, which changes nothing:
\* an event changes current and, for accepted ticks, the encoder state only.
C28_EventWriteSet ==
    [][event'.kind = "tick" \/ event'.kind = "short" \/ event'.kind = "long" =>
         /\ items' = items
         /\ start' = start
         /\ static_array_pos' = static_array_pos
         /\ heap' = heap
         /\ mode' = mode
         /\ event'.kind # "tick" => rotenc' = rotenc
         /\ event'.kind = "tick" /\ event'.arg % ENCODER_INPUT_FILTER # 0 =>
               rotenc' = rotenc /\ current' = current]_vars

\* A long press has taken the focus from a root-level item other than start
\* to start while the encoder stands at a position other than zero.
C28_Witness ==
    /\ event.kind = "long"
    /\ current = start
    /\ rotenc.current # 0
    /\ rotenc.delta # 0
    /\ \E x \in Allocated : x # start /\ items[x].parent = NULL
    /\ \E x \in Allocated : items[x].child # NULL

\* C29 - Empty ring is a no-op: rechain(p) called when no item has parent
\* p, also on an empty store, changes no prev or next of any item (and
\* nothing else) and reads through no empty pointer.
C29_EmptyRingNoOp ==
    [][event'.kind = "rechain" /\ ChildrenOf(event'.arg) = {} =>
         /\ items' = items
         /\ start' = start
         /\ current' = current
         /\ pc' = pc]_vars

\* rechain has been called for an item of a full store that has no items
\* under it.
C29_Witness ==
    /\ event.kind = "rechain"
    /\ event.arg \in Allocated
    /\ ChildrenOf(event.arg) = {}
    /\ Cardinality(Allocated) = MENU_SIZE
    /\ pc = "build"

\* C30 - Allocator cursor invariant: in static-memory mode static_array_pos
\* equals the number of successful add_item calls and never exceeds
\* MENU_SIZE, no slot is handed out twice, and add_item fails if and only
\* if the cursor equals MENU_SIZE when it is called.
C30_AllocatorCursor ==
    /\ [](mode = MENU_USAGE_STATIC_MEMORY =>
            /\ static_array_pos <= MENU_SIZE
            /\ static_array_pos = Len(BuildChain(start, MENU_SIZE + 1)))
    /\ [][event'.kind = "add_item" /\ mode = MENU_USAGE_STATIC_MEMORY =>
            /\ (event'.ret = NULL) <=> (static_array_pos = MENU_SIZE)
            /\ event'.ret = NULL => static_array_pos' = static_array_pos
            /\ event'.ret # NULL =>
                  /\ event'.ret \notin Allocated
                  /\ event'.ret = static_array_pos + 1
                  /\ static_array_pos' = static_array_pos + 1]_vars

\* The add_item call that takes the last element of the static array has
\* succeeded.
C30_Witness ==
    /\ mode = MENU_USAGE_STATIC_MEMORY
    /\ event.kind = "add_item"
    /\ event.ret = MENU_SIZE
    /\ static_array_pos = MENU_SIZE
    /\ Len(BuildChain(start, MENU_SIZE + 1)) = MENU_SIZE

(***************************************************************************)
(* Properties of the console driver (checked under SpecConsole).           *)
(***************************************************************************)
\* C31 - Direction is preserved across counter wrap-around: with the raw
\* counter of taskReadKey (unsigned, from 0, minus 2 per up-arrow and plus 2
\* per down-arrow, modulo the word size) every up-arrow yields delta == -1
\* and moves current to current.prev, every down-arrow yields delta == +1
\* and moves current to current.next, the first up-arrow from 0 included.
C31_DirectionPreserved ==
    [][event'.kind = "tick" =>
         /\ taskReadKey_current' = ToUint(taskReadKey_current - 2) =>
               /\ rotenc'.delta = -1
               /\ current' = items[current].prev
         /\ taskReadKey_current' = ToUint(taskReadKey_current + 2) =>
               /\ rotenc'.delta = 1
               /\ current' = items[current].next]_vars

(***************************************************************************)
(* Frame of s_menu_add_item (checked under SpecSetChild).                  *)
(***************************************************************************)
\* The last item of the build-order chain: the allocated item whose
\* folowing link is NULL.
ChainTail == {x \in Allocated : items[x].folowing = NULL}

\* C32 - add_item frame: a successful add_item(title, p, ...) changes the
\* prev/next only of items whose parent is p, changes the folowing link only
\* of the previously last item, and leaves the prev/next of every item with
\* a different parent, and the title, parent, child, callback and flags of
\* every item that existed before, unchanged.
C32_AddItemFrame ==
    [][event'.kind = "add_item" /\ event'.ret # NULL =>
         LET p == items'[event'.ret].parent
         IN \A x \in Allocated :
               /\ items[x].parent # p =>
                     /\ items'[x].prev = items[x].prev
                     /\ items'[x].next = items[x].next
               /\ x \notin ChainTail => items'[x].folowing = items[x].folowing
               /\ x \in ChainTail => items'[x].folowing = event'.ret
               /\ items'[x].title = items[x].title
               /\ items'[x].parent = items[x].parent
               /\ items'[x].child = items[x].child
               /\ items'[x].callback = items[x].callback
               /\ items'[x].flags = items[x].flags]_vars

\* The third item has been added under item 1, next to item 2: the ring
\* under item 1 was relinked, and item 1, wired to its child 2 before the
\* call, kept its one-item ring, its child and its flags.
C32_Witness ==
    /\ event.kind = "add_item"
    /\ event.ret = 3
    /\ items[3].parent = 1
    /\ items[2].parent = 1
    /\ items[2].next = 3
    /\ items[2].folowing = 3
    /\ items[1].next = 1
    /\ items[1].child = 2
    /\ HasFlag(items[1].flags, MENU_FLAG_GOTO_CHILD)

TwoTicks(x, pos, r1, r2) ==
    LET d1 == EncoderDelta(r1, pos)
        y == s_menu_position_handling(items, x, d1)
        d2 == EncoderDelta(r2, ToUint(pos + d1))
    IN s_menu_position_handling(items, y, d2)

\* The last event was an accepted reading that moved the focus by delta d.
MovedBy(d) ==
    /\ event.kind = "tick"
    /\ event.arg % ENCODER_INPUT_FILTER = 0
    /\ rotenc.delta = d
    /\ Len(Renders(out)) = 1

\* C34 - Tick round trip: when neither current nor current.next has a
\* callback, an accepted reading that raises the position by one detent
\* followed by one that lowers it by one detent returns current to the item
\* it started on, and symmetrically for lower-then-raise (with current.prev
\* in the place of current.next), for every item of every ring.
C34_TickRoundTrip ==
    /\ [](pc = "run" =>
            \A x \in Allocated : \A pos \in 0..(MaxRaw \div 2) :
               /\ (/\ 2 * (pos + 1) \in RawReadings
                   /\ items[x].callback = NULL
                   /\ items[items[x].next].callback = NULL)
                  => TwoTicks(x, pos, 2 * (pos + 1), 2 * pos) = x
               /\ (/\ pos >= 1
                   /\ items[x].callback = NULL
                   /\ items[items[x].prev].callback = NULL)
                  => TwoTicks(x, pos, 2 * (pos - 1), 2 * pos) = x)
    /\ [][(/\ MovedBy(1)
            /\ items[current].callback = NULL
            /\ event'.kind = "tick"
            /\ event'.arg = 2 * (rotenc.current - 1))
           => /\ rotenc'.delta = -1
              /\ current' \in Allocated
              /\ items[current'].next = current
              /\ Cardinality({y \in Allocated : items[y].next = current}) = 1]_vars
    /\ [][(/\ MovedBy(-1)
            /\ items[current].callback = NULL
            /\ event'.kind = "tick"
            /\ event'.arg = 2 * (rotenc.current + 1))
           => /\ rotenc'.delta = 1
              /\ current' \in Allocated
              /\ items[current'].prev = current
              /\ Cardinality({y \in Allocated : items[y].prev = current}) = 1]_vars

\* A reading has lowered the position from 2 to 1 and moved the focus back
\* inside a ring of three items without callbacks, which renders.
C34_Witness ==
    /\ MovedBy(-1)
    /\ rotenc.prev = 2
    /\ rotenc.current = 1
    /\ current \in Allocated
    /\ Cardinality(Siblings(current)) = 3
    /\ \A y \in Siblings(current) : items[y].callback = NULL
    /\ TwoTicks(current, rotenc.current, 4, 2) = current

(***************************************************************************)
(* Reachability of the entries of Menu_Init's menu (checked under SpecMenu).*)
(***************************************************************************)
\* The pairs <<current item, encoder position>> that one accepted reading
\* or one short press produces from a pair of S.
NavSteps(S) ==
    S \cup {<<PushTarget(items, s[1]), s[2]>> : s \in S}
      \cup {LET delta == EncoderDelta(raw, s[2])
            IN <<IF items[s[1]].callback # NULL THEN s[1]
                 ELSE s_menu_position_handling(items, s[1], delta),
                 ToUint(s[2] + delta)>> :
               s \in S, raw \in {r \in RawReadings : Accepted(r)}}

\* The pairs that finitely many accepted readings and short presses
\* produce from the pairs of S.
RECURSIVE NavReach(_)
NavReach(S) == IF NavSteps(S) = S THEN S ELSE NavReach(NavSteps(S))

\* The items among the pairs of S.
ItemsOf(S) == {s[1] : s \in S}

\* C35 - Every menu entry is reachable: in the menu Menu_Init builds (18
\* items in 5 rings), every item becomes current after some finite sequence
\* of accepted encoder readings and short presses from the initial state
\* current == start, and from every item the ring of its parent is entered
\* again by readings and short presses only, through the Back item of the
\* item's ring.
C35_EveryEntryReachable ==
    /\ [](event.kind = "init" =>
            /\ current = start
            /\ Cardinality(Allocated) = 18
            /\ Cardinality({items[x].parent : x \in Allocated}) = 5
            /\ Allocated \subseteq ItemsOf(NavReach({<<start, rotenc.current>>}))
            /\ \A x \in Allocated : \A pos \in 0..(MaxRaw \div 2) :
                  items[x].parent # NULL =>
                     /\ items[x].parent \in ItemsOf(NavReach({<<x, pos>>}))
                     /\ \E b \in Siblings(x) :
                           /\ b \in ItemsOf(NavReach({<<x, pos>>}))
                           /\ PushTarget(items, b) = items[x].parent)
    /\ [][(pc = "run" /\ (event'.kind = "tick" \/ event'.kind = "short")) =>
            /\ <<current', rotenc'.current>> \in NavSteps({<<current, rotenc.current>>})
            /\ items' = items]_vars

\* A short press on the Back item under Hi Arm, the ring built last, has
\* brought the focus back to Hi Arm in the ring of its parent.
C35_Witness ==
    /\ event.kind = "short"
    /\ pc = "run"
    /\ current = menu_hi_arm
    /\ items[current].child = menu_hi_arm_back
    /\ items[menu_hi_arm_back].parent = current
    /\ out = <<[op |-> "render", a |-> menu_hi_arm, b |-> items[menu_hi_arm].next]>>

(***************************************************************************)
(* The construction protocol of Menu_Init (checked under SpecMenu).        *)
(***************************************************************************)
\* C36 - Construction protocol of Menu_Init: every set_child(p, c) call is
\* made after all add_item calls whose parent is p, and c is an item whose
\* parent is p, so in the finished graph every item x with a non-empty
\* child satisfies x.child.parent == x and carries the go-to-child flag.
C36_ConstructionProtocol ==
    /\ [](\A x \in Allocated :
            items[x].child # NULL =>
               /\ items[x].child \in Allocated
               /\ items[items[x].child].parent = x
               /\ HasFlag(items[x].flags, MENU_FLAG_GOTO_CHILD))
    /\ [][event'.kind = "set_child" =>
            /\ event'.arg[1] \in Allocated
            /\ event'.arg[2] \in ChildrenOf(event'.arg[1])]_vars
    /\ [][event'.kind = "add_item" /\ event'.ret # NULL =>
            \A p \in Allocated :
               items'[event'.ret].parent = p => items[p].child = NULL]_vars
    /\ [](event.kind = "init" =>
            \A p \in Allocated :
               ChildrenOf(p) # {} => items[p].child \in ChildrenOf(p))

\* The last call of Menu_Init before s_menu_init has wired Hi Arm to its
\* Back item, after the four items under Hi Arm were added.
C36_Witness ==
    /\ event.kind = "set_child"
    /\ event.arg = <<menu_hi_arm, menu_hi_arm_back>>
    /\ Cardinality(ChildrenOf(menu_hi_arm)) = 4
    /\ items[menu_hi_arm].child = menu_hi_arm_back
    /\ HasFlag(items[menu_hi_arm].flags, MENU_FLAG_GOTO_CHILD)
    /\ MenuInitPos > Len(MenuInitCalls)

(***************************************************************************)
(* s_menu_add_item after the cursor has moved (checked under SpecReentry). *)
(***************************************************************************)
\* C37 - add_item is robust to a moved cursor: when add_item is called after
\* navigation events (or any other write to current) have moved current
\* away from the item added last, the new item is still appended at the
\* tail of the build-order chain, every item added before stays reachable
\* from start through the folowing links, and the ring closure invariant
\* still holds for all items.
C37_MovedCursorRobust ==
    (event.kind = "add_item" /\ event.ret # NULL) =>
        LET chain == BuildChain(start, StoreSize + 1)
        IN /\ \A x \in Allocated : \E i \in 1..Len(chain) : chain[i] = x
           /\ chain[Len(chain)] = event.ret
           /\ items[event.ret].folowing = NULL
           /\ \A x \in Allocated :
                 /\ items[x].next \in Allocated
                 /\ items[x].prev \in Allocated
                 /\ items[items[x].next].prev = x
                 /\ items[items[x].prev].next = x

(***************************************************************************)
(* The draft src/menu03.c (checked under SpecDraft03).                     *)
(***************************************************************************)
\* C38 - In the menu03.c draft, rechain as called from add_item includes the
\* newly added item: the first add_item on an empty store completes without
\* an access through an empty pointer and leaves the item a self-loop
\* (prev == next == self), and after every add_item the new item is a
\* member of its parent's closed ring.
C38_Draft03RechainIncludesNewItem ==
    (event.kind = "add_item" /\ event.ret # NULL) =>
        /\ pc = "build"
        /\ \A i \in 1..Len(out) : out[i].op # "null_write"
        /\ Cardinality(Allocated) = 1 =>
              /\ items[current].prev = current
              /\ items[current].next = current
        /\ items[current].next \in Siblings(current)
        /\ items[current].prev \in Siblings(current)
        /\ items[items[current].next].prev = current
        /\ items[items[current].prev].next = current

(***************************************************************************)
(* The hand-wired table of src/unnamed/part_000 (checked under SpecPart000).*)
(***************************************************************************)
\* The item n steps of prev behind x.
RECURSIVE StepsBack(_, _)
StepsBack(x, n) ==
    IF n = 0 \/ x \notin DOMAIN items THEN x ELSE StepsBack(items[x].prev, n - 1)

\* The items met from x along next.
RECURSIVE RingOf(_, _)
RingOf(x, seen) ==
    IF x \in seen \/ x \notin DOMAIN items THEN seen
    ELSE RingOf(items[x].next, seen \cup {x})

\* C39 - In the hand-wired static menu table, every item x satisfies
\* x.prev.next == x and x.next.prev == x, so stepping backward through any
\* ring visits every item of that ring and returns to the starting item.
C39_HandWiredRingClosure ==
    \A x \in part000_wired :
        /\ items[x].prev \in part000_wired
        /\ items[x].next \in part000_wired
        /\ items[items[x].prev].next = x
        /\ items[items[x].next].prev = x
        /\ LET ring == RingOf(x, {})
           IN /\ StepsBack(x, Cardinality(ring)) = x
              /\ {StepsBack(x, n) : n \in 1..Cardinality(ring)} = ring

=============================================================================
